---- MODULE Spec2Model ----
(***************************************************************************)
(* The refinement workflow of the performance-statement tracker: the       *)
(* RefinementScreen component (its hook state, its four mutations and its  *)
(* buttons), the refinement routes of the server, and the statements and   *)
(* refinement_sessions rows they read and write.  One statement and its    *)
(* session are modelled.                                                   *)
(***************************************************************************)
EXTENDS Integers, Sequences, FiniteSets, TLC

\* ---------------------------------------------------------------- bounds
\* Number of distinct texts (drafts, critiques) the generation service returns.
MaxText == 2

\* ------------------------------------------------------------- constants
\* canProceedToRegenerate = answeredQuestions >= 2
MinAnswers == 2
\* {refinementCount < 3 && ( ...Refine Again / Save to Library... )}
MaxRefinements == 3
\* createRefinementSession({ currentStep: 1 }) and useState(1)
FirstStep == 1
\* feedback route: currentStep: 2
FeedbackRouteStep == 2
\* regenerate route: currentStep: 4
RegenerateRouteStep == 4
\* complete route: currentStep: 5
CompleteRouteStep == 5

\* ----------------------------------------------------------------- texts
\* A text of the generation service is an opaque non-empty value; NoText is
\* the empty string / null.
NoText == 0
Texts == 1..MaxText

\* The three ask-back questions are answered by index (questions.map((q, index))).
Questions == 0..2

\* Answers are typed strings: sequences of characters.
AnswerTexts == { <<>>, <<" ">>, <<"a">> }

RECURSIVE TrimStart(_)
TrimStart(s) ==
    IF s # <<>> /\ Head(s) = " " THEN TrimStart(Tail(s)) ELSE s

RECURSIVE TrimEnd(_)
TrimEnd(s) ==
    IF s # <<>> /\ s[Len(s)] = " " THEN TrimEnd(SubSeq(s, 1, Len(s) - 1)) ELSE s

\* String.prototype.trim
Trim(s) == TrimEnd(TrimStart(s))

\* useState<Record<string, string>>({})
EmptyAnswers == [q \in {} |-> <<>>]

\* Every record of answers keyed by question index.
AnswerRecords == UNION { [D -> AnswerTexts] : D \in SUBSET Questions }

\* The inputs the user types into (the third is left untouched).
TypedQuestions == {0, 1}

\* The identifiers of wins a request may name, and those of them that are rows
\* of the wins table.
WinIds == {"w1", "w2"}
ExistingWins == {"w1"}

\* The body of a request: {askBackAnswers} of regenerate, {winIds, mode} of
\* generate.
Body(answers, winIds) == [askBackAnswers |-> answers, winIds |-> winIds]
NoBody == Body(EmptyAnswers, {})

\* The bodies other callers post to the regenerate and generate routes.
ApiBodies ==
    { Body(answers, {}) :
        answers \in { EmptyAnswers,
                      [q \in {0} |-> <<"a">>],
                      [q \in {0, 1} |-> IF q = 0 THEN <<"a">> ELSE <<" ">>],
                      [q \in {0, 2} |-> <<"a">>] } }
    \cup { Body(EmptyAnswers, ids) : ids \in SUBSET WinIds }

\* What JSON.parse of the question generator's output yields: an object with
\* this many questions (none when the questions are missing or empty).
QuestionCounts == {0, 3}

\* What JSON.parse of the critique generator's output yields: an object of the
\* feedback shape, or an object without score / strengths / improvements.
NoCritique == "none"
Critiques == {"feedback", "malformed"}

\* The answers that are not the empty text, blank ones included.
NonEmptyAnswers(answers) == { q \in DOMAIN answers : answers[q] # <<>> }

\* .filter(answer => answer.trim()) -- the answers the merge prompt receives
NonBlankAnswers(answers) == { q \in DOMAIN answers : Trim(answers[q]) # <<>> }

\* Object.values(askBackAnswers).filter(answer => answer.trim()).length
answeredQuestions(answers) == Cardinality(NonBlankAnswers(answers))

canProceedToRegenerate(answers) == answeredQuestions(answers) >= MinAnswers

\* A nullable jsonb column: <<>> is NULL, <<v>> holds v.
Null == <<>>
Some(v) == <<v>>

\* ------------------------------------------------------------------ state
VARIABLES
    stmt,                       \* the statements row
    sess,                       \* the refinement_sessions row of the statement
    req,                        \* the requests in flight, by slot: the place
                                \* of the handler, its locals, the cause of
                                \* its failure and the rows it has written
    mounted,                    \* RefinementScreen is rendered for the statement
    statement,                  \* useQuery(["/api/statements", statementId]) data
    currentStep,
    originalStatementContent,
    improvedStatementContent,
    askBackAnswers,
    aiFeedback,
    askBackQuestions,
    refinementCount

rows == <<stmt, sess>>
screenVars == <<mounted, statement, currentStep, originalStatementContent,
                improvedStatementContent, askBackAnswers, aiFeedback,
                askBackQuestions, refinementCount>>
vars == <<stmt, sess, req, mounted, statement, currentStep,
          originalStatementContent, improvedStatementContent, askBackAnswers,
          aiFeedback, askBackQuestions, refinementCount>>

\* One slot per mutation of the client (each is sent from behind a button
\* that is disabled while it is pending) and one slot for a caller of the
\* HTTP API other than these screens.
ScreenSlots == {"generate", "askbacks", "regenerate", "feedback", "complete"}
ApiSlots == {"api"}
Slots == ScreenSlots \cup ApiSlots
Routes == {"generate", "askbacks", "regenerate", "feedback", "complete"}

IdleReq ==
    [route |-> "none", pc |-> "idle", askBackAnswers |-> EmptyAnswers,
     winIds |-> {}, wins |-> {}, questions |-> 0,
     content |-> NoText, stage1Result |-> NoText, aiFeedback |-> NoCritique,
     finalResult |-> NoText, calls |-> <<>>, cause |-> "none", wrote |-> {}]

NoStatement ==
    [exists |-> FALSE, content |-> NoText, sourceWinIds |-> {},
     isCompleted |-> FALSE]

NoSession ==
    [exists |-> FALSE, currentStep |-> FirstStep, aiFeeds |-> Null,
     askBackAnswers |-> Null, isCompleted |-> FALSE]

Init ==
    /\ stmt = NoStatement
    /\ sess = NoSession
    /\ req = [s \in Slots |-> IdleReq]
    /\ mounted = FALSE
    /\ statement = NoText
    /\ currentStep = FirstStep
    /\ originalStatementContent = NoText
    /\ improvedStatementContent = NoText
    /\ askBackAnswers = EmptyAnswers
    /\ aiFeedback = Null
    /\ askBackQuestions = Null
    /\ refinementCount = 0

\* ----------------------------------------------------------- the server
\* The regenerate route with the statement written before the polish call.
RouteStepsWriteBeforePolish(route) ==
    CASE route = "generate" ->
           <<"getWinById", "generateFirstDraft", "createStatement",
             "createRefinementSession", "res200">>
      [] route = "askbacks" ->
           <<"getStatementById", "generateAskBackQuestions", "res200">>
      [] route = "regenerate" ->
           <<"getStatementById", "stage1", "generateAIFeedback",
             "updateStatement", "stage3",
             "getRefinementSessionByStatementId", "updateRefinementSession",
             "res200">>
      [] route = "feedback" ->
           <<"getStatementById", "generateAIFeedback",
             "getRefinementSessionByStatementId", "updateRefinementSession",
             "res200">>
      [] route = "complete" ->
           <<"updateStatement", "getRefinementSessionByStatementId",
             "updateRefinementSession", "res200">>

\* The operations a route handler performs, in order; the last one sends the
\* response.  Each await is a step at which other requests may run.
RouteSteps(route) ==
    CASE route = "generate" ->
           <<"getWinById", "generateFirstDraft", "createStatement",
             "createRefinementSession", "res200">>
      [] route = "askbacks" ->
           <<"getStatementById", "generateAskBackQuestions", "res200">>
      [] route = "regenerate" ->
           <<"getStatementById", "stage1", "generateAIFeedback", "stage3",
             "updateStatement", "getRefinementSessionByStatementId",
             "updateRefinementSession", "res200">>
      [] route = "feedback" ->
           <<"getStatementById", "generateAIFeedback",
             "getRefinementSessionByStatementId", "updateRefinementSession",
             "res200">>
      [] route = "complete" ->
           <<"updateStatement", "getRefinementSessionByStatementId",
             "updateRefinementSession", "res200">>

NextPc(route, pc) ==
    LET steps == RouteSteps(route)
        i == CHOOSE k \in 1..Len(steps) : steps[k] = pc
    IN  steps[i + 1]

\* Calls of the text-generation service (gpt5Text, JSON.parse of its output).
GenerationPcs ==
    {"generateFirstDraft", "generateAskBackQuestions", "stage1",
     "generateAIFeedback", "stage3"}

\* Calls of the store (storage.ts).
StorePcs ==
    {"getWinById", "getStatementById", "createStatement",
     "createRefinementSession", "updateStatement",
     "getRefinementSessionByStatementId", "updateRefinementSession"}

Responses == {"res200", "res400", "res404", "res500"}

\* The handler of the request is running on the server.
Running(s) == req[s].pc \in GenerationPcs \cup StorePcs

At(s, route, pc) == req[s].route = route /\ req[s].pc = pc

Advance(r) == [r EXCEPT !.pc = NextPc(r.route, r.pc)]

\* apiRequest(method, url, body): the request leaves the caller.
Send(s, route, body) ==
    /\ req[s].pc = "idle"
    /\ req' = [req EXCEPT ![s] =
                 [IdleReq EXCEPT !.route = route,
                                 !.pc = RouteSteps(route)[1],
                                 !.askBackAnswers = body.askBackAnswers,
                                 !.winIds = body.winIds]]

\* The resolution of the wins with an id that is no row taken as an error.
GetWinByIdStrict(s) ==
    /\ req[s].pc = "getWinById"
    /\ LET wins == req[s].winIds \cap ExistingWins
       IN  req' = [req EXCEPT ![s] =
                     IF wins # {} /\ wins = req[s].winIds
                     THEN Advance([@ EXCEPT !.wins = wins])
                     ELSE [@ EXCEPT !.pc = "res400"]]
    /\ UNCHANGED <<rows, screenVars>>

\* for (const winId of winIds) { const win = await storage.getWinById(winId);
\* if (win) wins.push(win); }  if (wins.length === 0) return res.status(400)
GetWinById(s) ==
    /\ req[s].pc = "getWinById"
    /\ LET wins == req[s].winIds \cap ExistingWins
       IN  req' = [req EXCEPT ![s] =
                     IF wins # {}
                     THEN Advance([@ EXCEPT !.wins = wins])
                     ELSE [@ EXCEPT !.pc = "res400"]]
    /\ UNCHANGED <<rows, screenVars>>

\* const answersText = Object.entries(askBackAnswers)
\*   .filter(([_, answer]) => answer.trim()).map(...): the answers of the
\* merge prompt
answersText(answers) == [q \in NonBlankAnswers(answers) |-> answers[q]]

\* The regeneration with the critique made of the statement as it was read.
CallCritiquesOriginal(r) ==
    CASE r.pc = "generateFirstDraft" ->
           [fn |-> "generateFirstDraft", wins |-> r.wins]
      [] r.pc = "generateAskBackQuestions" ->
           [fn |-> "generateAskBackQuestions", statement |-> r.content]
      [] r.pc = "stage1" ->
           [fn |-> "stage1", originalStatement |-> r.content,
            answersText |-> answersText(r.askBackAnswers)]
      [] r.pc = "generateAIFeedback" ->
           [fn |-> "generateAIFeedback", statement |-> r.content]
      [] r.pc = "stage3" ->
           [fn |-> "stage3", statement |-> r.stage1Result,
            improvements |-> r.aiFeedback]

\* The call of the text-generation service a handler makes at its place, with
\* what the prompt of the call is built from.
Call(r) ==
    CASE r.pc = "generateFirstDraft" ->
           [fn |-> "generateFirstDraft", wins |-> r.wins]
      [] r.pc = "generateAskBackQuestions" ->
           [fn |-> "generateAskBackQuestions", statement |-> r.content]
      [] r.pc = "stage1" ->
           [fn |-> "stage1", originalStatement |-> r.content,
            answersText |-> answersText(r.askBackAnswers)]
      [] r.pc = "generateAIFeedback" ->
           [fn |-> "generateAIFeedback",
            statement |-> IF r.route = "regenerate"
                          THEN r.stage1Result ELSE r.content]
      [] r.pc = "stage3" ->
           [fn |-> "stage3", statement |-> r.stage1Result,
            improvements |-> r.aiFeedback]

\* const generatedContent = await generateFirstDraft(wins, mode)
GenerateFirstDraft(s) ==
    /\ req[s].pc = "generateFirstDraft"
    /\ \E t \in Texts :
          req' = [req EXCEPT ![s] = Advance([@ EXCEPT !.content = t,
                                      !.calls = Append(@, Call(req[s]))])]
    /\ UNCHANGED <<rows, screenVars>>

\* const statement = await storage.createStatement({content: generatedContent,
\* sourceWinIds: winIds, isCompleted: false, ...})
CreateStatement(s) ==
    /\ req[s].pc = "createStatement"
    /\ ~stmt.exists
    /\ stmt' = [exists |-> TRUE, content |-> req[s].content,
                sourceWinIds |-> req[s].winIds, isCompleted |-> FALSE]
    /\ req' = [req EXCEPT ![s] =
                 Advance([@ EXCEPT !.wrote = @ \cup {"statement"}])]
    /\ UNCHANGED <<sess, screenVars>>

\* await storage.createRefinementSession({statementId, currentStep: 1,
\* isCompleted: false})
CreateRefinementSession(s) ==
    /\ req[s].pc = "createRefinementSession"
    /\ sess' = [NoSession EXCEPT !.exists = TRUE]
    /\ req' = [req EXCEPT ![s] =
                 Advance([@ EXCEPT !.wrote = @ \cup {"session"}])]
    /\ UNCHANGED <<stmt, screenVars>>

\* const statement = await storage.getStatementById(statementId);
\* if (!statement) return res.status(404)
GetStatementById(s) ==
    /\ req[s].pc = "getStatementById"
    /\ req' = [req EXCEPT ![s] =
                 IF stmt.exists
                 THEN Advance([@ EXCEPT !.content = stmt.content])
                 ELSE [@ EXCEPT !.pc = "res404"]]
    /\ UNCHANGED <<rows, screenVars>>

\* const askBacks = await generateAskBackQuestions(statement.content), which
\* returns JSON.parse(content): the questions about that content, identified
\* by the content, as many as the output holds.
GenerateAskBackQuestions(s) ==
    /\ req[s].pc = "generateAskBackQuestions"
    /\ \E n \in QuestionCounts :
          req' = [req EXCEPT ![s] =
                    Advance([@ EXCEPT !.questions = n,
                                      !.calls = Append(@, Call(req[s]))])]
    /\ UNCHANGED <<rows, screenVars>>

\* STAGE 1: const stage1Result = await gpt5Text(stage1Prompt, ...), the merge
\* of originalStatement and the non-blank answers.
Stage1(s) ==
    /\ req[s].pc = "stage1"
    /\ \E t \in Texts :
          req' = [req EXCEPT ![s] =
                    Advance([@ EXCEPT !.stage1Result = t,
                                      !.calls = Append(@, Call(req[s]))])]
    /\ UNCHANGED <<rows, screenVars>>

\* generateAIFeedback(statement.content) of the feedback route, and STAGE 2 of
\* enhancedRegenerateStatement: generateAIFeedback(stage1Result).
GenerateAIFeedback(s) ==
    /\ req[s].pc = "generateAIFeedback"
    /\ \E f \in Critiques :
          req' = [req EXCEPT ![s] =
                    Advance([@ EXCEPT !.aiFeedback = f,
                                      !.calls = Append(@, Call(req[s]))])]
    /\ UNCHANGED <<rows, screenVars>>

\* finalResult: finalResult || stage1Result
FinalOr(finalResult, stage1Result) ==
    IF finalResult # NoText THEN finalResult ELSE stage1Result

\* STAGE 3: const finalResult = await gpt5Text(stage3Prompt, ...)
Stage3(s) ==
    /\ req[s].pc = "stage3"
    /\ \E t \in Texts :
          req' = [req EXCEPT ![s] =
                    Advance([@ EXCEPT
                               !.finalResult =
                                 FinalOr(t, req[s].stage1Result),
                               !.calls = Append(@, Call(req[s]))])]
    /\ UNCHANGED <<rows, screenVars>>

\* A regeneration that goes on with the merged draft when its critique or its
\* polish throws.
GenerationFailsFallsBack(s) ==
    /\ req[s].pc \in GenerationPcs
    /\ req' = [req EXCEPT ![s] =
                 IF req[s].pc \in {"generateAIFeedback", "stage3"}
                    /\ req[s].route = "regenerate"
                 THEN [@ EXCEPT !.pc = "updateStatement",
                                !.finalResult = req[s].stage1Result,
                                !.calls = Append(@, Call(req[s])),
                                !.cause = "generation"]
                 ELSE [@ EXCEPT !.pc = "res500",
                                !.calls = Append(@, Call(req[s])),
                                !.cause = "generation"]]
    /\ UNCHANGED <<rows, screenVars>>

\* gpt5Text throws (the call fails, or "Empty output from GPT-5"), or
\* JSON.parse of the output throws: the catch block answers 500.
GenerationFails(s) ==
    /\ req[s].pc \in GenerationPcs
    /\ req' = [req EXCEPT ![s] = [@ EXCEPT !.pc = "res500",
                                           !.calls = Append(@, Call(req[s])),
                                           !.cause = "generation"]]
    /\ UNCHANGED <<rows, screenVars>>

\* const resp = await openai.responses.create(requestPayload) never settles:
\* the call carries no timeout and no abort signal, and the handler stays at
\* its await.
GenerationHangs(s) ==
    /\ req[s].pc \in GenerationPcs
    /\ req' = [req EXCEPT ![s] = [@ EXCEPT !.pc = "hung",
                                           !.calls = Append(@, Call(req[s]))]]
    /\ UNCHANGED <<rows, screenVars>>

\* A call of the store throws: the catch block answers 500.
StoreFails(s) ==
    /\ req[s].pc \in StorePcs
    /\ req' = [req EXCEPT ![s] = [@ EXCEPT !.pc = "res500",
                                           !.cause = "store"]]
    /\ UNCHANGED <<rows, screenVars>>

\* The fields a route hands to storage.updateStatement.
StatementUpdates(r) ==
    IF r.route = "regenerate"
    THEN [content |-> r.finalResult]
    ELSE [isCompleted |-> TRUE]

\* The fields a route hands to storage.updateRefinementSession.
SessionUpdates(r) ==
    CASE r.route = "feedback" ->
           [aiFeeds |-> Some(r.aiFeedback), currentStep |-> FeedbackRouteStep]
      [] r.route = "regenerate" ->
           [askBackAnswers |-> Some(r.askBackAnswers),
            enhancedSteps |-> [stage1Result |-> r.stage1Result,
                               aiFeedback |-> r.aiFeedback,
                               finalResult |-> r.finalResult],
            currentStep |-> RegenerateRouteStep]
      [] r.route = "complete" ->
           [currentStep |-> CompleteRouteStep, isCompleted |-> TRUE]

\* db.update(table).set({...updates}).where(eq(table.id, id)): the columns of
\* the table that updates names are set; a key that is no column of the table
\* is not written.
SetColumns(row, updates) ==
    [col \in DOMAIN row |->
        IF col \in DOMAIN updates THEN updates[col] ELSE row[col]]

\* await storage.updateStatement(statementId, {...}): no row, no write.
UpdateStatement(s) ==
    /\ req[s].pc = "updateStatement"
    /\ stmt' = IF stmt.exists
               THEN SetColumns(stmt, StatementUpdates(req[s]))
               ELSE stmt
    /\ req' = [req EXCEPT ![s] =
                 Advance([@ EXCEPT !.wrote =
                            IF stmt.exists THEN @ \cup {"statement"} ELSE @])]
    /\ UNCHANGED <<sess, screenVars>>

\* const session = await storage.getRefinementSessionByStatementId(id);
\* if (session) { ... }  res.json(...)
GetRefinementSessionByStatementId(s) ==
    /\ req[s].pc = "getRefinementSessionByStatementId"
    /\ req' = [req EXCEPT ![s] =
                 IF sess.exists THEN Advance(@) ELSE [@ EXCEPT !.pc = "res200"]]
    /\ UNCHANGED <<rows, screenVars>>

\* await storage.updateRefinementSession(session.id, {...})
UpdateRefinementSession(s) ==
    /\ req[s].pc = "updateRefinementSession"
    /\ sess' = SetColumns(sess, SessionUpdates(req[s]))
    /\ req' = [req EXCEPT ![s] =
                 Advance([@ EXCEPT !.wrote = @ \cup {"session"}])]
    /\ UNCHANGED <<stmt, screenVars>>

\* ------------------------------------------------- the statements screen
\* One statement is modelled: a first draft is requested while none exists.
NoGenerateInFlight == \A s \in Slots : req[s].route # "generate"

\* handleGenerate: generateStatementMutation.mutate({winIds, mode})
HandleGenerate ==
    /\ ~mounted
    /\ ~stmt.exists
    /\ NoGenerateInFlight
    /\ \E selectedWins \in SUBSET ExistingWins :
          /\ selectedWins # {}
          /\ Send("generate", "generate", Body(EmptyAnswers, selectedWins))
    /\ UNCHANGED <<rows, screenVars>>

\* generateStatementMutation onSuccess: onStartRefinement(statement.id), which
\* renders RefinementScreen with its initial hook state.
GenerateOnSuccess ==
    /\ At("generate", "generate", "res200")
    /\ mounted' = TRUE
    /\ req' = [req EXCEPT !["generate"] = IdleReq]
    /\ UNCHANGED <<rows, statement, currentStep, originalStatementContent,
                   improvedStatementContent, askBackAnswers, aiFeedback,
                   askBackQuestions, refinementCount>>

\* generateStatementMutation onError: a toast.
GenerateOnError ==
    /\ req["generate"].pc \in Responses \ {"res200"}
    /\ req' = [req EXCEPT !["generate"] = IdleReq]
    /\ UNCHANGED <<rows, screenVars>>

\* ------------------------------------------------- the refinement screen
\* if (statementLoading || !statement) return <Loading/>: nothing of the
\* screen can be used before the statement query has answered.
Loaded == mounted /\ statement # NoText

isPending(s) == req[s].pc # "idle"

\* useQuery(["/api/statements", statementId]) answers, and the effect on
\* [statement, wins] runs: setOriginalStatementContent(statement.content)
StatementQuery ==
    /\ mounted
    /\ statement = NoText
    /\ stmt.exists
    /\ statement' = stmt.content
    /\ originalStatementContent' = stmt.content
    /\ UNCHANGED <<rows, req, mounted, currentStep, improvedStatementContent,
                   askBackAnswers, aiFeedback, askBackQuestions,
                   refinementCount>>

\* setAskBackAnswers(prev => ({...prev, [questionIndex]: answer}))
Upsert(answers, questionIndex, answer) ==
    [q \in DOMAIN answers \cup {questionIndex} |->
        IF q = questionIndex THEN answer ELSE answers[q]]

\* input-askback-N onChange, rendered when currentStep >= 2 && askBackQuestions,
\* one input per question of askBackQuestions.questions
handleAnswerChange(questionIndex, answer) ==
    /\ Loaded
    /\ currentStep >= 2
    /\ askBackQuestions # Null
    /\ questionIndex < askBackQuestions[1].questions
    /\ askBackAnswers' = Upsert(askBackAnswers, questionIndex, answer)
    /\ askBackAnswers' # askBackAnswers
    /\ UNCHANGED <<rows, req, mounted, statement, currentStep,
                   originalStatementContent, improvedStatementContent,
                   aiFeedback, askBackQuestions, refinementCount>>

\* button-next-step is rendered when currentStep < 5; its disabled attribute.
NextDisabled ==
    \/ currentStep = 1 /\ isPending("askbacks")
    \/ currentStep = 2 /\ (~canProceedToRegenerate(askBackAnswers)
                             \/ isPending("regenerate"))
    \/ currentStep = 3 /\ isPending("feedback")

NextButton == Loaded /\ currentStep < 5 /\ ~NextDisabled

\* handleNext case 1 setting the stage at once, before the questions arrive.
HandleNext1Eager ==
    /\ NextButton
    /\ currentStep = 1
    /\ Send("askbacks", "askbacks", NoBody)
    /\ currentStep' = 2
    /\ UNCHANGED <<rows, mounted, statement, originalStatementContent,
                   improvedStatementContent, askBackAnswers, aiFeedback,
                   askBackQuestions, refinementCount>>

\* handleNext case 1: generateAskBacksMutation.mutate()
HandleNext1 ==
    /\ NextButton
    /\ currentStep = 1
    /\ Send("askbacks", "askbacks", NoBody)
    /\ UNCHANGED <<rows, screenVars>>

\* handleNext case 2: if (canProceedToRegenerate)
\* regenerateStatementMutation.mutate(), which posts {askBackAnswers}
HandleNext2 ==
    /\ NextButton
    /\ currentStep = 2
    /\ canProceedToRegenerate(askBackAnswers)
    /\ Send("regenerate", "regenerate", Body(askBackAnswers, {}))
    /\ UNCHANGED <<rows, screenVars>>

\* handleNext case 3 showing stage 4 without a request.
HandleNext3Direct ==
    /\ NextButton
    /\ currentStep = 3
    /\ currentStep' = 4
    /\ UNCHANGED <<rows, req, mounted, statement, originalStatementContent,
                   improvedStatementContent, askBackAnswers, aiFeedback,
                   askBackQuestions, refinementCount>>

\* handleNext case 3: generateFeedbackMutation.mutate()
HandleNext3 ==
    /\ NextButton
    /\ currentStep = 3
    /\ Send("feedback", "feedback", NoBody)
    /\ UNCHANGED <<rows, screenVars>>

\* handleNext case 4: setCurrentStep(5)
HandleNext4 ==
    /\ NextButton
    /\ currentStep = 4
    /\ currentStep' = 5
    /\ UNCHANGED <<rows, req, mounted, statement, originalStatementContent,
                   improvedStatementContent, askBackAnswers, aiFeedback,
                   askBackQuestions, refinementCount>>

\* generateAskBacksMutation onSuccess: setAskBackQuestions(questions);
\* setCurrentStep(2)
AskBacksOnSuccess ==
    /\ mounted
    /\ At("askbacks", "askbacks", "res200")
    /\ askBackQuestions' = Some([about |-> req["askbacks"].content,
                                  questions |-> req["askbacks"].questions])
    /\ currentStep' = 2
    /\ req' = [req EXCEPT !["askbacks"] = IdleReq]
    /\ UNCHANGED <<rows, mounted, statement, originalStatementContent,
                   improvedStatementContent, askBackAnswers, aiFeedback,
                   refinementCount>>

\* regenerateStatementMutation onSuccess:
\* setImprovedStatementContent(result.content); setCurrentStep(3)
RegenerateOnSuccess ==
    /\ mounted
    /\ At("regenerate", "regenerate", "res200")
    /\ improvedStatementContent' = req["regenerate"].finalResult
    /\ currentStep' = 3
    /\ req' = [req EXCEPT !["regenerate"] = IdleReq]
    /\ UNCHANGED <<rows, mounted, statement, originalStatementContent,
                   askBackAnswers, aiFeedback, askBackQuestions,
                   refinementCount>>

\* generateFeedbackMutation onSuccess: setAiFeedback(feedback);
\* setCurrentStep(4)
FeedbackOnSuccess ==
    /\ mounted
    /\ At("feedback", "feedback", "res200")
    /\ aiFeedback' = Some(req["feedback"].aiFeedback)
    /\ currentStep' = 4
    /\ req' = [req EXCEPT !["feedback"] = IdleReq]
    /\ UNCHANGED <<rows, mounted, statement, originalStatementContent,
                   improvedStatementContent, askBackAnswers, askBackQuestions,
                   refinementCount>>

\* The hook state of the component is gone once it is no longer rendered.
Unmount ==
    /\ mounted' = FALSE
    /\ statement' = NoText
    /\ currentStep' = FirstStep
    /\ originalStatementContent' = NoText
    /\ improvedStatementContent' = NoText
    /\ askBackAnswers' = EmptyAnswers
    /\ aiFeedback' = Null
    /\ askBackQuestions' = Null
    /\ refinementCount' = 0

\* completeRefinementMutation onSuccess: a toast, invalidateQueries and
\* onComplete(), which leaves the refinement screen for the library.
CompleteOnSuccess ==
    /\ mounted
    /\ At("complete", "complete", "res200")
    /\ Unmount
    /\ req' = [req EXCEPT !["complete"] = IdleReq]
    /\ UNCHANGED rows

RefinementSlots == ScreenSlots \ {"generate"}

\* The mutations moving to the next stage when they settle, error or not.
OnErrorAdvances(s) ==
    /\ mounted
    /\ s \in RefinementSlots
    /\ req[s].pc \in Responses \ {"res200"}
    /\ req' = [req EXCEPT ![s] = IdleReq]
    /\ currentStep' = IF currentStep < 5 THEN currentStep + 1 ELSE currentStep
    /\ UNCHANGED <<rows, mounted, statement, originalStatementContent,
                   improvedStatementContent, askBackAnswers, aiFeedback,
                   askBackQuestions, refinementCount>>

\* onError of the four mutations (apiRequest throws on a response that is not
\* ok): a toast, and nothing else.
OnError(s) ==
    /\ mounted
    /\ s \in RefinementSlots
    /\ req[s].pc \in Responses \ {"res200"}
    /\ req' = [req EXCEPT ![s] = IdleReq]
    /\ UNCHANGED <<rows, screenVars>>

\* A response that arrives after the screen was left sets no state.
AfterUnmount(s) ==
    /\ ~mounted
    /\ s \in RefinementSlots
    /\ req[s].pc \in Responses
    /\ req' = [req EXCEPT ![s] = IdleReq]
    /\ UNCHANGED <<rows, screenVars>>

\* button-back: onClick={onComplete}
Back ==
    /\ Loaded
    /\ Unmount
    /\ UNCHANGED <<rows, req>>

\* The stage-5 card renders its two buttons when
\* currentStep >= 5 && refinementCount < 3.
Stage5Buttons == Loaded /\ currentStep >= 5 /\ refinementCount < MaxRefinements

\* Refine Again onClick
RefineAgain ==
    /\ Stage5Buttons
    /\ originalStatementContent' = improvedStatementContent
    /\ currentStep' = 2
    /\ refinementCount' = refinementCount + 1
    /\ askBackAnswers' = EmptyAnswers
    /\ aiFeedback' = Null
    /\ improvedStatementContent' = NoText
    /\ UNCHANGED <<rows, req, mounted, statement, askBackQuestions>>

\* Save to Library onClick: completeRefinementMutation.mutate(), disabled
\* while completeRefinementMutation.isPending
SaveToLibrary ==
    /\ Stage5Buttons
    /\ ~isPending("complete")
    /\ Send("complete", "complete", NoBody)
    /\ UNCHANGED <<rows, screenVars>>

\* ------------------------------------------------------ callers of the API
\* A request to a route from any authenticated caller, with any body.
ApiCall(s, route, body) ==
    /\ s \in ApiSlots
    /\ route = "generate" => ~stmt.exists /\ NoGenerateInFlight
    /\ route # "regenerate" => body.askBackAnswers = EmptyAnswers
    /\ route # "generate" => body.winIds = {}
    /\ Send(s, route, body)
    /\ UNCHANGED <<rows, screenVars>>

\* res.json(...) / res.status(...).json(...) reaches that caller.
ApiResponse(s) ==
    /\ s \in ApiSlots
    /\ req[s].pc \in Responses
    /\ req' = [req EXCEPT ![s] = IdleReq]
    /\ UNCHANGED <<rows, screenVars>>

\* --------------------------------------------------------- specifications
Server(s) ==
    \/ GetWinById(s)
    \/ GenerateFirstDraft(s)
    \/ CreateStatement(s)
    \/ CreateRefinementSession(s)
    \/ GetStatementById(s)
    \/ GenerateAskBackQuestions(s)
    \/ Stage1(s)
    \/ GenerateAIFeedback(s)
    \/ Stage3(s)
    \/ GenerationFails(s)
    \/ StoreFails(s)
    \/ UpdateStatement(s)
    \/ GetRefinementSessionByStatementId(s)
    \/ UpdateRefinementSession(s)

Screen ==
    \/ HandleGenerate
    \/ GenerateOnSuccess
    \/ GenerateOnError
    \/ StatementQuery
    \/ \E q \in TypedQuestions, a \in AnswerTexts : handleAnswerChange(q, a)
    \/ HandleNext1
    \/ HandleNext2
    \/ HandleNext3
    \/ HandleNext4
    \/ AskBacksOnSuccess
    \/ RegenerateOnSuccess
    \/ FeedbackOnSuccess
    \/ CompleteOnSuccess
    \/ \E s \in RefinementSlots : OnError(s)
    \/ \E s \in RefinementSlots : AfterUnmount(s)
    \/ Back
    \/ RefineAgain
    \/ SaveToLibrary

\* The application: the screens and the server.
Next == Screen \/ \E s \in Slots : Server(s)

Spec == Init /\ [][Next]_vars

\* The response of a request reaches the mutation that sent it.
Deliver(s) ==
    \/ s = "generate" /\ (GenerateOnSuccess \/ GenerateOnError)
    \/ s = "askbacks" /\ AskBacksOnSuccess
    \/ s = "regenerate" /\ RegenerateOnSuccess
    \/ s = "feedback" /\ FeedbackOnSuccess
    \/ s = "complete" /\ CompleteOnSuccess
    \/ OnError(s)
    \/ AfterUnmount(s)

\* The application with a text-generation service that may hang.
NextHang == Next \/ \E s \in Slots : GenerationHangs(s)

\* Every handler that can take a step takes one, and every response is
\* delivered; the user is not bound to act.
SpecHang ==
    /\ Init /\ [][NextHang]_vars
    /\ \A s \in Slots : WF_vars(Server(s) \/ GenerationHangs(s))
    /\ \A s \in ScreenSlots : WF_vars(Deliver(s))

\* The same with a service that always answers or fails.
SpecFair ==
    /\ Init /\ [][Next]_vars
    /\ \A s \in Slots : WF_vars(Server(s))
    /\ \A s \in ScreenSlots : WF_vars(Deliver(s))

\* The server under requests of any caller.
NextApi ==
    \/ \E s \in ApiSlots, route \in Routes, body \in ApiBodies :
          ApiCall(s, route, body)
    \/ \E s \in ApiSlots : ApiResponse(s)
    \/ \E s \in Slots : Server(s)

SpecApi == Init /\ [][NextApi]_vars

\* useQuery(["/api/statements", statementId]) reads the statement again (a
\* refetch of the query): its data changes when the row read differs from the
\* data held, and the effect on [statement, wins] runs again:
\* setOriginalStatementContent(statement.content)
StatementRefetch ==
    /\ Loaded
    /\ stmt.exists
    /\ stmt.content # statement
    /\ statement' = stmt.content
    /\ originalStatementContent' = stmt.content
    /\ UNCHANGED <<rows, req, mounted, currentStep, improvedStatementContent,
                   askBackAnswers, aiFeedback, askBackQuestions,
                   refinementCount>>

\* The application with a statement query that reads again.
NextRefetch == Next \/ StatementRefetch

SpecRefetch == Init /\ [][NextRefetch]_vars

\* ----------------------------------------------------------------- claims
\* A change of stage a -> b the workflow allows.
StageStep(a, b) == b = a \/ b = a + 1 \/ (a = 5 /\ b = 2)

\* C1: every change of the stage, of the screen's currentStep as of the
\* currentStep the routes persist in the session, is an increase by exactly 1
\* or the loop-back from 5 to 2.
C1_StageAdvancesByOne ==
    [][ /\ (mounted /\ mounted') => StageStep(currentStep, currentStep')
        /\ StageStep(sess.currentStep, sess'.currentStep) ]_vars

\* The screen's part of C1 alone.
C1_ScreenStageAdvancesByOne ==
    [][ (mounted /\ mounted') => StageStep(currentStep, currentStep') ]_vars

\* A request whose handler has called the merge generation (stage 1).
MergeCalled(r) == r.stage1Result # NoText \/ r.cause = "generation"

AtStage2 ==
    \/ sess.exists /\ sess.currentStep = 2
    \/ mounted /\ currentStep = 2

\* C2: at stage 2 a regenerate request with fewer than 2 non-blank answers is
\* rejected: it makes no regeneration call and writes nothing.
C2_GateRejects ==
    \A s \in Slots :
        ( /\ req[s].route = "regenerate"
          /\ AtStage2
          /\ ~canProceedToRegenerate(req[s].askBackAnswers) )
        => ~MergeCalled(req[s]) /\ req[s].wrote = {}

\* The client's part of C2: the screen sends no regenerate request with fewer
\* than 2 non-blank answers.
C2_ScreenGate ==
    isPending("regenerate") =>
        canProceedToRegenerate(req["regenerate"].askBackAnswers)

\* C3: a transition whose generation call fails answers with an error and
\* commits nothing: the request has written no row when it fails, and neither
\* the failing call nor the delivery of its error changes the rows or the
\* state of the screen.
C3_FailedGenerationWritesNothing ==
    /\ [](\A s \in Slots :
             req[s].cause = "generation" =>
                req[s].pc = "res500" /\ req[s].wrote = {})
    /\ [][ \A s \in Slots :
              ( \/ req[s].cause # "generation" /\ req'[s].cause = "generation"
                \/ req[s].cause = "generation" /\ req'[s].pc = "idle" )
              => UNCHANGED <<rows, screenVars>> ]_vars

\* The polish call of a regeneration fails after the merge and the critique
\* succeeded, at stage 2 of the screen.
C3_Witness ==
    /\ mounted /\ currentStep = 2
    /\ req["regenerate"].cause = "generation"
    /\ req["regenerate"].stage1Result # NoText
    /\ req["regenerate"].aiFeedback # NoCritique
    /\ stmt.content = req["regenerate"].content

\* The loop-back: the screen goes from stage 5 to stage 2.
LoopBackStep == mounted /\ mounted' /\ currentStep = 5 /\ currentStep' = 2

\* C4: a loop-back at stage 5 puts the polished content of the iteration just
\* finished in the before slot, clears the answers, the feedback and the
\* polished draft and sets the stage to 2; after it the session holds no
\* answer and no feedback of the previous iteration.
C4_LoopBackResets ==
    [][ LoopBackStep =>
           /\ improvedStatementContent # NoText
           /\ originalStatementContent' = improvedStatementContent
           /\ askBackAnswers' = EmptyAnswers
           /\ aiFeedback' = Null
           /\ improvedStatementContent' = NoText
           /\ sess'.askBackAnswers = Null
           /\ sess'.aiFeeds = Null ]_vars

\* The screen's part of C4 alone.
C4_ScreenLoopBackResets ==
    [][ LoopBackStep =>
           /\ improvedStatementContent # NoText
           /\ originalStatementContent' = improvedStatementContent
           /\ askBackAnswers' = EmptyAnswers
           /\ aiFeedback' = Null
           /\ improvedStatementContent' = NoText ]_vars

\* C5: a complete that succeeded has set Statement.completed and
\* Session.completed, and no loop-back is taken once they are set.
C5_NoLoopBackAfterComplete ==
    /\ [](\A s \in Slots :
             At(s, "complete", "res200") =>
                stmt.isCompleted /\ sess.isCompleted)
    /\ [][ (stmt.isCompleted /\ sess.isCompleted) => ~LoopBackStep ]_vars

\* The first part of C5 alone.
C5_CompleteSetsBoth ==
    \A s \in Slots :
        At(s, "complete", "res200") => stmt.isCompleted /\ sess.isCompleted

\* C6: a regenerate or complete transition that has ended has written both
\* the statement and the session, or neither.
C6_AllOrNothing ==
    \A s \in Slots :
        (req[s].route \in {"regenerate", "complete"} /\ req[s].pc \in Responses)
        => req[s].wrote \in { {}, {"statement", "session"} }

\* The session row holds a value in the named column.
SessionHolds(col) == col \in DOMAIN sess /\ sess[col] # Null

\* C7: a session at stage N holds the artifacts of the stages below N, in the
\* session row as on the screen: the questions from stage 2 on, the
\* post-answer draft, the feedback and the polished draft from stage 3 on.
C7_StageImpliesArtifacts ==
    /\ (sess.exists /\ sess.currentStep >= 2) => SessionHolds("questions")
    /\ (sess.exists /\ sess.currentStep >= 3) =>
          SessionHolds("enhancedSteps") /\ SessionHolds("aiFeeds")
    /\ (mounted /\ currentStep >= 2) => askBackQuestions # Null
    /\ (mounted /\ currentStep >= 3) =>
          improvedStatementContent # NoText /\ aiFeedback # Null

\* C8: when a regenerate has succeeded, the session holds the post-answer
\* draft, the critique and the polished draft of that request, and the
\* content of the statement is that polished draft.
C8_RegenerateStoresArtifacts ==
    \A s \in Slots :
        At(s, "regenerate", "res200") =>
            /\ stmt.content = req[s].finalResult
            /\ sess.exists
            /\ SessionHolds("enhancedSteps")
            /\ sess["enhancedSteps"] =
                  [stage1Result |-> req[s].stage1Result,
                   aiFeedback |-> req[s].aiFeedback,
                   finalResult |-> req[s].finalResult]

\* The part of C8 about the content of the statement alone.
C8_ContentIsPolished ==
    \A s \in Slots :
        At(s, "regenerate", "res200") => stmt.content = req[s].finalResult

\* The handler has performed its first operation and has not answered yet.
Active(s) == Running(s) /\ req[s].pc # RouteSteps(req[s].route)[1]

\* C9: the transitions of a session are serialized: at most one handler is
\* between its first operation and its response, and no answer is recorded
\* or cleared on the screen meanwhile.
C9_TransitionsSerialized ==
    /\ [](Cardinality({s \in Slots : Active(s)}) <= 1)
    /\ [][ (mounted' /\ \E s \in Slots : Active(s))
              => askBackAnswers' = askBackAnswers ]_vars

\* C10: Statement.completed becomes true only when the session has reached
\* stage 5: a complete request for a session at an earlier stage leaves it
\* false.
C10_CompleteOnlyAtStage5 ==
    [][ (~stmt.isCompleted /\ stmt'.isCompleted)
           => (sess.exists /\ sess.currentStep = 5) ]_vars

\* C11: in every reachable state the completed flag of the session equals the
\* completed flag of its statement.
C11_CompletedMirrors ==
    (stmt.exists /\ sess.exists) => sess.isCompleted = stmt.isCompleted

\* C11 between requests only: no complete handler is running.
C11_CompletedMirrorsAtRest ==
    (\A s \in Slots : ~(Running(s) /\ req[s].route = "complete"))
        => C11_CompletedMirrors

\* The advance of stage 1 is requested: the askbacks request leaves the screen.
AdvanceRequested ==
    mounted /\ currentStep = 1
    /\ req["askbacks"].pc = "idle" /\ req'["askbacks"].pc # "idle"

\* C12 as stated: the advance of a fresh session at stage 1 succeeds at once,
\* the stage is 2 while question generation is still pending.
C12_AdvanceSucceedsTrivially ==
    [][ AdvanceRequested => currentStep' = 2 ]_vars

\* C12 amended: at stage 1 the advance has no precondition and is always
\* accepted; it starts question generation and leaves the stage at 1; the
\* stage becomes 2 only when question generation has succeeded, and then the
\* questions are set.
C12_AdvanceWaitsForQuestions ==
    /\ []((Loaded /\ currentStep = 1 /\ ~isPending("askbacks"))
             => ENABLED HandleNext1)
    /\ [][ AdvanceRequested => currentStep' = 1 ]_vars
    /\ [][ (mounted /\ mounted' /\ currentStep = 1 /\ currentStep' # 1) =>
              /\ currentStep' = 2
              /\ At("askbacks", "askbacks", "res200")
              /\ askBackQuestions' # Null ]_vars

\* The advance was requested at stage 1 and question generation is pending.
C12_Witness ==
    /\ Loaded /\ currentStep = 1 /\ refinementCount = 0
    /\ req["askbacks"].pc = "generateAskBackQuestions"

\* C13: the loop-back counter grows by exactly 1 on each loop-back from stage
\* 5 to stage 2 and changes on nothing else; at the cap only the loop-back is
\* withdrawn: saving the statement is offered in every stage-5 state, whatever
\* the counter.
C13_SoftCap ==
    /\ [][ (mounted /\ mounted') =>
              refinementCount' =
                 refinementCount + (IF LoopBackStep THEN 1 ELSE 0) ]_vars
    /\ []((Loaded /\ currentStep = 5 /\ ~isPending("complete"))
             => ENABLED SaveToLibrary)

\* The counter's part of C13 alone, with the cap as the code applies it.
C13_CounterCountsLoopBacks ==
    /\ [][ (mounted /\ mounted') =>
              refinementCount' =
                 refinementCount + (IF LoopBackStep THEN 1 ELSE 0) ]_vars
    /\ [](refinementCount <= MaxRefinements)

\* C14: a structured result of the wrong shape is a failed generation: a
\* question result that does not hold exactly 3 questions, or a critique
\* without the feedback shape, is never answered with success, never stored
\* in the session or on the screen, and the stage does not advance on it.
C14_MalformedIsFailure ==
    /\ \A s \in Slots :
          /\ At(s, "askbacks", "res200")
                => req[s].questions = Cardinality(Questions)
          /\ (req[s].route \in {"feedback", "regenerate"}
                /\ req[s].pc = "res200") => req[s].aiFeedback # "malformed"
    /\ askBackQuestions # Null
          => askBackQuestions[1].questions = Cardinality(Questions)
    /\ aiFeedback # Some("malformed")
    /\ sess.aiFeeds # Some("malformed")

\* C15: every transition that was requested ends, with success or with an
\* error, so that no mutation of the screen stays pending for ever.
C15_TransitionsEnd ==
    \A s \in RefinementSlots : isPending(s) ~> ~isPending(s)

\* C16: a complete, feedback or regenerate request for a statement or a
\* session that does not exist never reports success and writes nothing.
C16_AbsentIsNotFound ==
    \A s \in Slots :
        (req[s].route \in {"complete", "feedback", "regenerate"}
            /\ (~stmt.exists \/ ~sess.exists))
        => req[s].pc # "res200" /\ req[s].wrote = {}

\* The part of C16 the feedback, askbacks and regenerate routes do satisfy: an
\* absent statement is answered with 404 and nothing is written.
C16_AbsentStatementIs404 ==
    \A s \in Slots :
        (req[s].route \in {"askbacks", "feedback", "regenerate"}
            /\ req[s].pc \in Responses /\ ~stmt.exists)
        => req[s].pc \in {"res404", "res500"} /\ req[s].wrote = {}

RECURSIVE Pow2(_)
Pow2(i) == IF i = 0 THEN 1 ELSE 2 * Pow2(i - 1)

\* The concrete fact tokens (numbers, proper nouns) that occur in a text: the
\* texts are numbered so that bit i of the number of a text tells whether
\* token i occurs in it.
Facts(t) == { i \in 0..MaxText : (t \div Pow2(i)) % 2 = 1 }

\* C17: after a successful regenerate every fact token of the post-answer
\* draft occurs in the polished draft that is the new statement content,
\* whatever the polish generator returned.
C17_PolishKeepsFacts ==
    \A s \in Slots :
        At(s, "regenerate", "res200") =>
            Facts(req[s].stage1Result) \subseteq Facts(req[s].finalResult)

\* A session row is inserted by this step.
SessionCreated == ~sess.exists /\ sess'.exists

\* C18: a statement and its session are created together: once statement
\* creation has ended, with success or with an error, both rows exist or
\* neither does; the session starts at stage 1, not completed, with no
\* answers and no feedback, beside an existing statement, and no second
\* session is created for the statement.
C18_CreatedTogether ==
    /\ [](\A s \in Slots :
             (req[s].route = "generate" /\ req[s].pc \in Responses)
                => (stmt.exists <=> sess.exists))
    /\ [][ SessionCreated =>
              stmt.exists /\ sess' = [NoSession EXCEPT !.exists = TRUE] ]_vars
    /\ [][ sess.exists =>
              \A s \in Slots :
                 ~(req[s].pc = "createRefinementSession"
                     /\ req'[s].pc = "res200") ]_vars

\* C18 without the outcome of a failed store call: the session is created
\* fresh, beside its statement, and once only.
C18_SessionCreatedOnceFresh ==
    /\ [][ SessionCreated =>
              stmt.exists /\ sess' = [NoSession EXCEPT !.exists = TRUE] ]_vars
    /\ [][ sess.exists =>
              \A s \in Slots :
                 ~(req[s].pc = "createRefinementSession"
                     /\ req'[s].pc = "res200") ]_vars

\* The handler of a generate request has looked every id up (no lookup threw).
WinsResolved(r) ==
    /\ r.route = "generate"
    /\ r.pc # "getWinById"
    /\ ~(r.cause = "store" /\ r.content = NoText)

\* C19: statement creation ignores the ids that resolve to no win: when at
\* least one id resolves, the handler goes on with exactly the resolved wins
\* and, unless a later call fails, creates the statement and its session; when
\* none resolves it answers 400 without a generation call and creates nothing.
C19_MissingWinsIgnored ==
    \A s \in Slots :
        WinsResolved(req[s]) =>
            IF req[s].winIds \cap ExistingWins = {}
            THEN /\ req[s].pc = "res400"
                 /\ req[s].content = NoText
                 /\ req[s].wrote = {}
                 /\ ~stmt.exists /\ ~sess.exists
            ELSE /\ req[s].pc # "res400"
                 /\ req[s].wins = req[s].winIds \cap ExistingWins
                 /\ req[s].pc = "res200" =>
                       /\ req[s].content # NoText
                       /\ stmt.exists /\ sess.exists
                       /\ req[s].wrote = {"statement", "session"}

\* A statement was created from a list of ids of which one resolved to no win.
C19_Witness ==
    \E s \in Slots :
        /\ At(s, "generate", "res200")
        /\ req[s].winIds = {"w1", "w2"}
        /\ req[s].wins = {"w1"}
        /\ stmt.exists

\* C20: the source ids stored with a created statement are exactly the ids of
\* the wins its first draft was generated from.
C20_SourcesAreUsedWins ==
    \A s \in Slots :
        (req[s].route = "generate" /\ "statement" \in req[s].wrote)
            => stmt.sourceWinIds = req[s].wins

\* The screen goes from stage 3 to stage 4.
FeedbackStep == mounted /\ mounted' /\ currentStep = 3 /\ currentStep' = 4

\* C21 as stated: the transition from stage 3 to stage 4 makes no generation
\* call and writes nothing, the feedback it shows being the critique of the
\* regeneration.
C21_FeedbackStepGeneratesNothing ==
    [][ FeedbackStep =>
           /\ req["feedback"].calls = <<>>
           /\ req["feedback"].wrote = {} ]_vars

\* C21, amended: the transition from stage 3 to stage 4 makes one generation
\* call, a critique of the stored (polished) content of the statement; the
\* feedback shown at stage 4 is that critique; the transition writes it, with
\* the currentStep of the feedback route, to the session and writes nothing
\* else.
C21_FeedbackStepCritiquesPolished ==
    /\ [][ FeedbackStep =>
              LET r == req["feedback"]
              IN  /\ r.route = "feedback" /\ r.pc = "res200"
                  /\ r.content = improvedStatementContent
                  /\ r.calls = <<[fn |-> "generateAIFeedback",
                                  statement |-> r.content]>>
                  /\ r.aiFeedback \in Critiques
                  /\ aiFeedback' = Some(r.aiFeedback)
                  /\ r.wrote = {"session"}
                  /\ sess.aiFeeds = Some(r.aiFeedback) ]_vars
    /\ [][ \A s \in Slots :
              ( /\ req[s].route = "feedback" /\ req'[s].route = "feedback"
                /\ req'[s].wrote # req[s].wrote )
              => /\ stmt' = stmt
                 /\ sess' = [sess EXCEPT
                               !.aiFeeds = Some(req[s].aiFeedback),
                               !.currentStep = FeedbackRouteStep] ]_vars

\* Stage 4 shows the critique the feedback route has stored.
C21_Witness ==
    /\ mounted /\ currentStep = 4
    /\ aiFeedback # Null
    /\ sess.aiFeeds = aiFeedback
    /\ stmt.content = improvedStatementContent

\* C22: a regeneration calls the merge, the critique and the polish in this
\* order, each once and each only after the call before it has returned; the
\* merge receives the content the handler read and exactly the answers that
\* are non-blank, the critique the output of the merge, the polish the output
\* of the merge with the improvement notes of that critique.
C22_MergeCritiquePolishInOrder ==
    \A s \in Slots :
        req[s].route = "regenerate" =>
            LET r == req[s]
                given == { q \in DOMAIN r.askBackAnswers :
                             Trim(r.askBackAnswers[q]) # <<>> }
                expected ==
                    << [fn |-> "stage1", originalStatement |-> r.content,
                        answersText |-> [q \in given |-> r.askBackAnswers[q]]],
                       [fn |-> "generateAIFeedback",
                        statement |-> r.stage1Result],
                       [fn |-> "stage3", statement |-> r.stage1Result,
                        improvements |-> r.aiFeedback] >>
            IN  /\ Len(r.calls) <= 3
                /\ \A i \in 1..Len(r.calls) : r.calls[i] = expected[i]
                /\ Len(r.calls) >= 1 => r.content # NoText
                /\ Len(r.calls) >= 2 => r.stage1Result # NoText
                /\ Len(r.calls) >= 3 => r.aiFeedback # NoCritique
                /\ r.finalResult # NoText => Len(r.calls) = 3
                /\ r.wrote # {} => r.finalResult # NoText

\* A regeneration with a blank answer among its answers has made its three
\* calls, the merge without the blank answer.
C22_Witness ==
    \E s \in Slots :
        /\ At(s, "regenerate", "res200")
        /\ Len(req[s].calls) = 3
        /\ \E q \in DOMAIN req[s].askBackAnswers :
              /\ Trim(req[s].askBackAnswers[q]) = <<>>
              /\ q \notin DOMAIN req[s].calls[1].answersText
        /\ req[s].calls[1].answersText # EmptyAnswers

\* C23: a regeneration whose critique or polish call fails answers with an
\* error, having written nothing and holding no polished text, and the error
\* leaves the stage and the drafts of the screen as they were; a regeneration
\* writes only after its critique and its polish have returned, and what it
\* stores as the content is the output of the polish.
C23_CritiqueOrPolishFailureAborts ==
    /\ [](\A s \in Slots :
             ( /\ req[s].route = "regenerate"
               /\ req[s].cause = "generation"
               /\ Len(req[s].calls) >= 2 )
             => /\ req[s].pc = "res500"
                /\ req[s].wrote = {}
                /\ req[s].finalResult = NoText)
    /\ [](\A s \in Slots :
             (req[s].route = "regenerate" /\ req[s].wrote # {})
             => /\ req[s].cause # "generation"
                /\ Len(req[s].calls) = 3
                /\ req[s].aiFeedback # NoCritique
                /\ req[s].finalResult # NoText)
    /\ [][ \A s \in Slots :
              ( /\ req[s].route = "regenerate" /\ req'[s].route = "regenerate"
                /\ "statement" \in req'[s].wrote \ req[s].wrote )
              => stmt'.content = req[s].finalResult /\ sess' = sess ]_vars
    /\ [][ ( /\ mounted
             /\ req["regenerate"].cause = "generation"
             /\ req'["regenerate"].pc = "idle" )
           => /\ mounted' /\ currentStep' = currentStep
              /\ improvedStatementContent' = improvedStatementContent
              /\ rows' = rows ]_vars

\* The critique call of a regeneration has failed after the merge returned,
\* at stage 2 of the screen: the content is the one the handler read.
C23_Witness ==
    /\ mounted /\ currentStep = 2
    /\ At("regenerate", "regenerate", "res500")
    /\ req["regenerate"].cause = "generation"
    /\ Len(req["regenerate"].calls) = 2
    /\ req["regenerate"].stage1Result # NoText
    /\ req["regenerate"].aiFeedback = NoCritique
    /\ stmt.content = req["regenerate"].content
    /\ improvedStatementContent = NoText

\* The screen records an answer.
AnswerStep ==
    /\ mounted /\ mounted'
    /\ askBackAnswers' # askBackAnswers
    /\ ~LoopBackStep

\* The number of questions whose answer is not empty after trimming.
NonBlankCount(answers) ==
    Cardinality({ q \in DOMAIN answers : Trim(answers[q]) # <<>> })

\* C24: recording an answer sets the answer of one question, whatever the
\* text, keeps the answers of the other questions and changes nothing else of
\* the session, the statement or the screen; the count that gates the
\* regeneration is the number of questions whose answer is not blank, so that
\* a blank text in the place of a non-blank one lowers it by one.
C24_AnswerUpsert ==
    /\ [][ AnswerStep =>
              \E q \in Questions :
                 /\ DOMAIN askBackAnswers' = DOMAIN askBackAnswers \cup {q}
                 /\ \A p \in DOMAIN askBackAnswers \ {q} :
                       askBackAnswers'[p] = askBackAnswers[p]
                 /\ ( /\ q \in DOMAIN askBackAnswers
                      /\ Trim(askBackAnswers[q]) # <<>>
                      /\ Trim(askBackAnswers'[q]) = <<>> )
                    => NonBlankCount(askBackAnswers')
                          = NonBlankCount(askBackAnswers) - 1
                 /\ UNCHANGED <<rows, req, statement, currentStep,
                                originalStatementContent,
                                improvedStatementContent, aiFeedback,
                                askBackQuestions, refinementCount>> ]_vars
    /\ []( (Loaded /\ currentStep = 2 /\ ~isPending("regenerate"))
           => ( (ENABLED HandleNext2)
                  <=> NonBlankCount(askBackAnswers) >= MinAnswers ) )

\* A blank answer and a non-blank one are recorded at stage 2: one question
\* counts and the regeneration cannot be requested.
C24_Witness ==
    /\ Loaded /\ currentStep = 2
    /\ DOMAIN askBackAnswers = {0, 1}
    /\ askBackAnswers[0] = <<" ">>
    /\ askBackAnswers[1] = <<"a">>
    /\ ~isPending("regenerate")
    /\ NextDisabled

\* C25: at stage 2 after a loop-back, while the screen waits for answers, the
\* questions it shows were generated from the current content of the
\* statement (the polished content of the iteration before).
C25_LoopBackAsksNewQuestions ==
    ( /\ Loaded /\ currentStep = 2
      /\ refinementCount > 0
      /\ ~isPending("regenerate")
      /\ askBackQuestions # Null )
    => askBackQuestions[1].about = stmt.content

\* The mutations whose route calls the text generation, and the stage of the
\* screen each is sent from.
GeneratingSlots == {"askbacks", "regenerate", "feedback"}
StageOf(s) ==
    CASE s = "askbacks" -> 1 [] s = "regenerate" -> 2 [] s = "feedback" -> 3

\* C26: a transition that failed in its generation has written nothing, and
\* the delivery of its error leaves the rows and the screen as they were, at
\* the stage the transition was requested from, with the mutation idle; at
\* that stage, with the mutation idle (and, at stage 2, the answers still
\* sufficient), the same transition can be requested again, so that a retry
\* starts from the state the failed attempt started from.
C26_FailedTransitionCanBeRetried ==
    /\ [][ \A s \in GeneratingSlots :
              ( /\ mounted
                /\ req[s].cause = "generation"
                /\ req'[s].pc = "idle" )
              => /\ req[s].wrote = {}
                 /\ rows' = rows
                 /\ screenVars' = screenVars
                 /\ currentStep' = StageOf(s)
                 /\ req'[s] = IdleReq ]_vars
    /\ []( (Loaded /\ currentStep = 1 /\ ~isPending("askbacks"))
           => ENABLED HandleNext1 )
    /\ []( ( /\ Loaded /\ currentStep = 2 /\ ~isPending("regenerate")
             /\ canProceedToRegenerate(askBackAnswers) )
           => ENABLED HandleNext2 )
    /\ []( (Loaded /\ currentStep = 3 /\ ~isPending("feedback"))
           => ENABLED HandleNext3 )

\* The critique of the feedback route has failed at stage 3 of the screen:
\* the session holds no feedback and the content is the polished one.
C26_Witness ==
    /\ mounted /\ currentStep = 3
    /\ At("feedback", "feedback", "res500")
    /\ req["feedback"].cause = "generation"
    /\ sess.exists /\ sess.aiFeeds = Null
    /\ stmt.content = improvedStatementContent

\* C27: when the screen has changed its stage, by a transition that succeeded
\* or by a loop-back, the session holds the stage of the screen and the
\* answers of the screen.
C27_SessionMirrorsScreen ==
    [][ (mounted /\ mounted' /\ currentStep' # currentStep) =>
           /\ sess'.currentStep = currentStep'
           /\ askBackAnswers' = IF sess'.askBackAnswers = Null
                                THEN EmptyAnswers
                                ELSE sess'.askBackAnswers[1] ]_vars

\* C28: completion is absorbing: once the session is completed, no step
\* changes its stage, changes the content of the statement or takes the
\* completion of the session or of the statement back.
C28_CompletionAbsorbing ==
    [][ sess.isCompleted =>
           /\ sess'.isCompleted
           /\ sess'.currentStep = sess.currentStep
           /\ sess.currentStep = CompleteRouteStep
           /\ stmt'.content = stmt.content
           /\ stmt.isCompleted => stmt'.isCompleted ]_vars

\* The screen goes from stage 2 to stage 3.
RegenerateStep == mounted /\ mounted' /\ currentStep = 2 /\ currentStep' = 3

\* C29: when the regeneration completes, the answers the screen holds are
\* the answers the request carried, the merge has received the non-blank
\* ones of them, and they pass the gate of the regeneration.
C29_MergedAnswersAreHeld ==
    [][ RegenerateStep =>
           LET r == req["regenerate"]
           IN  /\ askBackAnswers' = r.askBackAnswers
               /\ r.calls[1].answersText
                     = [q \in { p \in DOMAIN askBackAnswers' :
                                  Trim(askBackAnswers'[p]) # <<>> }
                          |-> askBackAnswers'[q]]
               /\ canProceedToRegenerate(askBackAnswers') ]_vars

\* C30: while the screen shows a loaded statement, the before text
\* (originalStatementContent) is changed by no step but the loop-back:
\* neither by the generation of the questions, the recording of an answer,
\* the regeneration or the generation of the feedback, nor by a new read of
\* the statement after the regeneration.
C30_BeforeTextChangesOnlyAtLoopBack ==
    [][ ( /\ Loaded /\ mounted'
          /\ originalStatementContent' # originalStatementContent )
        => LoopBackStep ]_vars

====
